---- MODULE Spec2Model ----
(***************************************************************************)
(* A model of elsapy's search module, src/elsapy/elssearch.py: one         *)
(* ElsSearch object, the executions of ElsSearch.execute on it, and the    *)
(* ElsClient that answers its requests.                                    *)
(*                                                                         *)
(* Representation.                                                         *)
(*  - An attribute that __init__ does not create (_results, _tot_num_res)  *)
(*    is None until the first assignment; a value v that is present is     *)
(*    Some(v).  Reading an absent attribute raises AttributeError.         *)
(*  - A list of entries is kept run-length encoded: one record             *)
(*    [call, page, n] per non-empty page, the n entries that the page-th   *)
(*    non-empty response of the call-th execute carried.  num_res is the   *)
(*    sum of the n's.  This keeps lists of thousands of entries small      *)
(*    without hiding their lengths.                                        *)
(*  - A string is a sequence of tokens; the query is a sequence of         *)
(*    characters, which is what url_encode works on.                       *)
(*  - execute is cut at its blocking calls: pc = "first" while line 121    *)
(*    waits for the first response, pc = "loop" at the test of the while   *)
(*    of line 137, pc = "next" while line 141 waits.  pc = "idle" when no  *)
(*    execute is running.                                                  *)
(*  - The progress bar (lines 127-132, 143-145) is left out: it reads the  *)
(*    state and never writes it.                                           *)
(*  - The ElsClient is not part of this module's source.  Each call of    *)
(*    execute is handed an executor of one of two kinds: "any" answers     *)
(*    every request as it pleases (it may fail, leave members out, send    *)
(*    any total, page and links); "honest" serves the total it announced   *)
(*    in pages of the size asked for, each with a "next" link while        *)
(*    entries remain, and never fails.                                     *)
(***************************************************************************)
EXTENDS Integers, Sequences, FiniteSets, TLC

\* ---------------------------------------------------------------- bounds
\* The arbitrary executor hands out at most MaxPages non-empty pages in one
\* call.
MaxPages == 2
\* The well-behaved executor answers the queries whose results fit in
\* MaxHonestPages pages of the size asked for.
MaxHonestPages == 3
\* execute is called at most MaxCalls times on the session.
MaxCalls == 2
\* nreq counts the requests of a call up to MaxReq ("MaxReq or more").
MaxReq == 3

\* ----------------------------------------------------------- input sets
None == <<>>
Some(v) == <<v>>

\* The indexes a session is constructed with or given later; "" is the
\* empty index.
Indexes == {"scopus", "sciencedirect", ""}
Queries == {<<"a", " ", "&">>}
\* The queries assigned to an existing session.
AssignedQueries == Queries \cup {<<"b">>}
\* The use_cursor, view and count arguments execute is called with ("None"
\* stands for view=None).
CallArgs ==
  { <<FALSE, "None", 0>>, <<TRUE, "None", 25>>,
    <<FALSE, "COMPLETE", 2501>>, <<TRUE, "COMPLETE", 2501>> }
\* All values of view and count, for the composition of the URL alone.
Views == {"None", "", "COMPLETE"}
Counts == {0, 25, 2501}
Totals == {0, 1, 2501, 5002, 6000}
PageSizes == {0, 2501}
Href1 == <<"href1">>
Href2 == <<"href2">>
Unbound == <<>>

SelfLink == [ref |-> "self", href |-> <<"href0">>]
NextLink(h) == [ref |-> "next", href |-> h]
LinkLists ==
  { <<SelfLink>>, <<SelfLink, NextLink(Href1)>>, <<NextLink(Href1), NextLink(Href2)>> }

VARIABLES
  _query,            \* self._query
  _index,            \* self._index
  _cursor_supported, \* self._cursor_supported
  _uri,              \* self._uri
  _results,          \* self._results: None, or Some(list of pages)
  _tot_num_res,      \* self._tot_num_res: None, or Some(integer)
  results_df,        \* self.results_df: the rows of the data frame
  pc,                \* where execute stands
  get_all,           \* execute's argument get_all (of the latest call)
  api_response,      \* execute's local api_response: its "entry" and "link"
                     \* members (the total is copied into _tot_num_res)
  next_url,          \* execute's local next_url, Unbound until assigned
  inflight,          \* the URL els_client.exec_request is working on
  executor,          \* the ElsClient of the call: how it answers
  outcome,           \* how the latest execute ended
  nreq,              \* requests issued by the latest execute
  calls,             \* number of execute calls so far
  hasAll             \* what the latest hasAllResults() call did

vars ==
  << _query, _index, _cursor_supported, _uri, _results, _tot_num_res, results_df,
     pc, get_all, api_response, next_url, inflight, executor, outcome, nreq,
     calls, hasAll >>

session == << _query, _index, _cursor_supported, _uri >>

\* ------------------------------------------------------------- helpers
RECURSIVE SumN(_)
SumN(pages) ==
  IF pages = <<>> THEN 0 ELSE pages[1].n + SumN(Tail(pages))

\* The entries of one response as a list: nothing for an empty page.
Entries(size, call, page) ==
  IF size = 0 THEN <<>> ELSE << [call |-> call, page |-> page, n |-> size] >>

_base_url == <<"https://api.elsevier.com/content/search/">>
_cursored_indexes == {"scopus"}

\* urllib.parse.quote_plus on one character: letters stay, a space becomes
\* "+", anything else is percent-encoded.
QuoteChar(c) ==
  CASE c = " " -> "+"
    [] c = "&" -> "%26"
    [] OTHER -> c

RECURSIVE url_encode(_)
url_encode(s) ==
  IF s = <<>> THEN <<>> ELSE <<QuoteChar(s[1])>> \o url_encode(Tail(s))

\* str(count) for the counts in use.
Str(n) ==
  CASE n = 0 -> "0"
    [] n = 25 -> "25"
    [] n = 2501 -> "2501"

\* Python truth value of a view ("None" stands for None) and of a count.
TruthyStr(x) == x \notin {"None", ""}
TruthyInt(n) == n # 0

\* Mutant: the view is appended before the cursor flag.
Mut_ComposeUrl_ViewFirst(uri, use_cursor, view, count) ==
  uri \o (IF TruthyStr(view) THEN <<"&view=", view>> ELSE <<>>)
      \o (IF use_cursor THEN <<"&cursor=*">> ELSE <<>>)
      \o (IF TruthyInt(count) THEN <<"&count=", Str(count)>> ELSE <<>>)

\* lines 112-118: "if view:" and "if count:" test the truth value
ComposeUrl(uri, use_cursor, view, count) ==
  uri \o (IF use_cursor THEN <<"&cursor=*">> ELSE <<>>)
      \o (IF TruthyStr(view) THEN <<"&view=", view>> ELSE <<>>)
      \o (IF TruthyInt(count) THEN <<"&count=", Str(count)>> ELSE <<>>)

\* pd.DataFrame(records) followed by recast_df: one row per entry, in order.
recast_df(records) == [rows |-> records]

\* line 80: len(self.results), where self._results exists
num_res == SumN(_results[1])

\* line 71
tot_num_res == _tot_num_res[1]

\* Mutant: the ceiling of 5000 applied to every index.
Mut_upper_limit_reached_AnyIndex == num_res >= 5000

\* Mutant: the ceiling never reported.
Mut_upper_limit_reached_Never == FALSE

\* lines 87-96
_upper_limit_reached ==
  IF _cursor_supported THEN FALSE ELSE num_res >= 5000

\* Mutant: the loop entered whatever get_all is.
Mut_Continue_IgnoresGetAll ==
  /\ num_res < tot_num_res
  /\ ~ _upper_limit_reached

\* Mutant: the loop goes on without comparing the results with the total.
Mut_Continue_IgnoresTotal ==
  get_all = TRUE /\ ~ _upper_limit_reached

\* lines 136-137: the loop is entered, or gone round once more
Continue ==
  /\ get_all = TRUE
  /\ num_res < tot_num_res
  /\ ~ _upper_limit_reached

\* lines 138-140: the href of the last link whose @ref is "next"; the local
\* keeps its earlier value (or stays unbound) when there is none.
RECURSIVE ScanLinks(_, _)
ScanLinks(links, cur) ==
  IF links = <<>> THEN cur
  ELSE ScanLinks(Tail(links), IF links[1].ref = "next" THEN links[1].href ELSE cur)

\* `a is b` where a is the int len() has just built and b the int stored by
\* line 122.  CPython keeps one object for each integer in -5..256, so equal
\* small integers are identical; for a larger value len() returns a new
\* object, which is never the stored one.
IntIs(a, b) ==
  IF a # b THEN {"False"}
  ELSE IF a >= -5 /\ a <= 256 THEN {"True"}
  ELSE {"False"}

\* lines 150-152
hasAllResultsOutcomes ==
  IF _results = None \/ _tot_num_res = None THEN {"AttributeError"}
  ELSE IntIs(num_res, tot_num_res)

Inc(n) == IF n < MaxReq THEN n + 1 ELSE n

\* ------------------------------------------------------------ executor
\* The page size a well-behaved server uses: the count asked for, its own
\* default when the URL carries none.
ServedCount(count) == IF count = 0 THEN 25 ELSE count

Min(a, b) == IF a < b THEN a ELSE b

HonestLinks(remaining, k) ==
  IF remaining > 0
  THEN <<SelfLink, NextLink(IF k % 2 = 1 THEN Href1 ELSE Href2)>>
  ELSE <<SelfLink>>

Response(total, entry, link) == [total |-> total, entry |-> entry, link |-> link]

\* The part of a response execute still reads once the total is stored.
Kept(r) == [entry |-> r.entry, link |-> r.link]
NoResponse == [entry |-> None, link |-> None]

\* What exec_request may return for the first request.
FirstResponses ==
  IF executor.mode = "honest"
  THEN { Response(Some(t), Some(Min(executor.count, t)),
                  Some(HonestLinks(t - Min(executor.count, t), 1))) :
           t \in {u \in Totals : u <= executor.count * MaxHonestPages} }
  ELSE { Response(t, e, l) :
           t \in {None} \cup {Some(u) : u \in Totals},
           e \in {None} \cup {Some(s) : s \in PageSizes},
           l \in {None} \cup {Some(k) : k \in LinkLists} }

\* What exec_request may return for a follow-up request.  The total of a
\* follow-up response is never read (lines 141-142).
NextResponses ==
  IF executor.mode = "honest"
  THEN LET rem == tot_num_res - num_res
           p == Min(executor.count, rem)
       IN { Response(_tot_num_res, Some(p),
                     Some(HonestLinks(rem - p, Len(_results[1]) + 1))) }
  ELSE { Response(_tot_num_res, e, l) :
           e \in {None} \cup
                 {Some(s) : s \in {x \in PageSizes :
                                     x = 0 \/ Len(_results[1]) < MaxPages}},
           l \in {None} \cup {Some(k) : k \in LinkLists} }

\* ---------------------------------------------------------------- Init
\* lines 30-36: __init__
Init ==
  /\ _query \in Queries
  /\ _index \in Indexes
  /\ _cursor_supported = (_index \in _cursored_indexes)
  /\ _uri = _base_url \o <<_index, "?query=">> \o url_encode(_query)
  /\ results_df = recast_df(<<>>)
  /\ _results = None
  /\ _tot_num_res = None
  /\ pc = "idle"
  /\ get_all = FALSE
  /\ api_response = NoResponse
  /\ next_url = Unbound
  /\ inflight = <<>>
  /\ executor = [mode |-> "any", count |-> 0]
  /\ outcome = "none"
  /\ nreq = 0
  /\ calls = 0
  /\ hasAll = "none"

\* ------------------------------------------------------------- actions
\* An exception leaves execute: its locals are gone, the object keeps what
\* was assigned before.
Raise(exc) ==
  /\ pc' = "idle"
  /\ outcome' = exc
  /\ api_response' = NoResponse
  /\ next_url' = Unbound
  /\ inflight' = <<>>

\* lines 112-121: execute is called, composes the URL and asks for it
Execute(ga, use_cursor, view, count, mode) ==
  /\ pc = "idle"
  /\ calls < MaxCalls
  /\ calls' = calls + 1
  /\ get_all' = ga
  /\ inflight' = ComposeUrl(_uri, use_cursor, view, count)
  /\ executor' = [mode |-> mode,
                  count |-> IF mode = "honest" THEN ServedCount(count) ELSE 0]
  /\ nreq' = 1
  /\ pc' = "first"
  /\ outcome' = "running"
  /\ hasAll' = "none"
  /\ api_response' = NoResponse
  /\ next_url' = Unbound
  /\ UNCHANGED << session, _results, _tot_num_res, results_df >>

\* line 121: exec_request raises
FirstRequestFails ==
  /\ pc = "first"
  /\ executor.mode = "any"
  /\ Raise("TransportError")
  /\ UNCHANGED << session, _results, _tot_num_res, results_df, get_all, executor,
                  nreq, calls, hasAll >>

\* lines 122-135 on a response without "opensearch:totalResults" (KeyError at
\* line 123, nothing assigned) or without "entry" (KeyError at line 135, after
\* _tot_num_res was assigned)
FirstResponseMalformed ==
  /\ pc = "first"
  /\ \E t \in {r.total : r \in {x \in FirstResponses :
                                     x.total = None \/ x.entry = None}} :
       _tot_num_res' = IF t = None THEN _tot_num_res ELSE t
  /\ Raise("KeyError")
  /\ UNCHANGED << session, _results, results_df, get_all, executor, nreq, calls,
                  hasAll >>

\* Mutant: the first page appended to the results of the call before.
Mut_FirstResponseStored_Appends ==
  /\ pc = "first"
  /\ \E r \in FirstResponses :
       /\ r.total # None /\ r.entry # None
       /\ _tot_num_res' = r.total
       /\ _results' =
            Some((IF _results = None THEN <<>> ELSE _results[1])
                 \o Entries(r.entry[1], calls, 1))
       /\ api_response' = Kept(r)
  /\ pc' = "loop"
  /\ inflight' = <<>>
  /\ UNCHANGED << session, results_df, get_all, next_url, executor, outcome, nreq,
                  calls, hasAll >>

\* lines 122-135 on a response that has both
FirstResponseStored ==
  /\ pc = "first"
  /\ \E r \in FirstResponses :
       /\ r.total # None /\ r.entry # None
       /\ _tot_num_res' = r.total
       /\ _results' = Some(Entries(r.entry[1], calls, 1))
       /\ api_response' = Kept(r)
  /\ pc' = "loop"
  /\ inflight' = <<>>
  /\ UNCHANGED << session, results_df, get_all, next_url, executor, outcome, nreq,
                  calls, hasAll >>

\* Mutant: execute returns without rebuilding the data frame.
Mut_Return_KeepsTable ==
  /\ pc = "loop"
  /\ ~ Continue
  /\ pc' = "idle"
  /\ outcome' = "returned"
  /\ UNCHANGED << session, _results, _tot_num_res, results_df, get_all,
                  api_response, next_url, inflight, executor, nreq, calls,
                  hasAll >>

\* lines 136-148 when the loop is not entered or is left: the data frame is
\* rebuilt and execute returns
Return ==
  /\ pc = "loop"
  /\ ~ Continue
  /\ results_df' = recast_df(_results[1])
  /\ pc' = "idle"
  /\ outcome' = "returned"
  /\ UNCHANGED << session, _results, _tot_num_res, get_all, api_response, next_url,
                  inflight, executor, nreq, calls, hasAll >>

\* lines 138-141 when the response has no "link" member (KeyError at line
\* 138) or next_url was never assigned (UnboundLocalError at line 141)
NoNextUrl ==
  /\ pc = "loop"
  /\ Continue
  /\ \/ /\ api_response.link = None
        /\ Raise("KeyError")
     \/ /\ api_response.link # None
        /\ ScanLinks(api_response.link[1], next_url) = Unbound
        /\ Raise("UnboundLocalError")
  /\ UNCHANGED << session, _results, _tot_num_res, results_df, get_all, executor,
                  nreq, calls, hasAll >>

\* lines 138-141: the links are scanned and next_url is asked for
RequestNext ==
  /\ pc = "loop"
  /\ Continue
  /\ api_response.link # None
  /\ ScanLinks(api_response.link[1], next_url) # Unbound
  /\ next_url' = ScanLinks(api_response.link[1], next_url)
  /\ inflight' = next_url'
  /\ nreq' = Inc(nreq)
  /\ pc' = "next"
  /\ UNCHANGED << session, _results, _tot_num_res, results_df, get_all,
                  api_response, executor, outcome, calls, hasAll >>

\* Mutant: a failed page fetch throws away the pages fetched before it.
Mut_NextRequestFails_RollsBack ==
  /\ pc = "next"
  /\ executor.mode = "any"
  /\ Raise("TransportError")
  /\ _results' = Some(<<>>)
  /\ UNCHANGED << session, _tot_num_res, results_df, get_all, executor, nreq, calls,
                  hasAll >>

\* line 141: exec_request raises
NextRequestFails ==
  /\ pc = "next"
  /\ executor.mode = "any"
  /\ Raise("TransportError")
  /\ UNCHANGED << session, _results, _tot_num_res, results_df, get_all, executor,
                  nreq, calls, hasAll >>

\* line 142 on a response without "entry"
NextResponseMalformed ==
  /\ pc = "next"
  /\ \E r \in NextResponses : r.entry = None
  /\ Raise("KeyError")
  /\ UNCHANGED << session, _results, _tot_num_res, results_df, get_all, executor,
                  nreq, calls, hasAll >>

\* Mutant: the entries of a further page are put in front of the list.
Mut_NextResponseAppended_Prepends ==
  /\ pc = "next"
  /\ \E r \in NextResponses :
       /\ r.entry # None
       /\ _results' =
            Some(Entries(r.entry[1], calls, Len(_results[1]) + 1) \o _results[1])
       /\ api_response' = Kept(r)
  /\ pc' = "loop"
  /\ inflight' = <<>>
  /\ UNCHANGED << session, _tot_num_res, results_df, get_all, next_url, executor,
                  outcome, nreq, calls, hasAll >>

\* lines 141-143: the entries of the response are appended
NextResponseAppended ==
  /\ pc = "next"
  /\ \E r \in NextResponses :
       /\ r.entry # None
       /\ _results' =
            Some(_results[1] \o Entries(r.entry[1], calls, Len(_results[1]) + 1))
       /\ api_response' = Kept(r)
  /\ pc' = "loop"
  /\ inflight' = <<>>
  /\ UNCHANGED << session, _tot_num_res, results_df, get_all, next_url, executor,
                  outcome, nreq, calls, hasAll >>

\* lines 150-152: hasAllResults is called between two executions
hasAllResults ==
  /\ pc = "idle"
  /\ hasAll' \in hasAllResultsOutcomes
  /\ UNCHANGED << session, _results, _tot_num_res, results_df, pc, get_all,
                  api_response, next_url, inflight, executor, outcome, nreq, calls >>

\* lines 44-47: session.query = q, between two executions
SetQuery(q) ==
  /\ pc = "idle"
  /\ _query' = q
  /\ UNCHANGED << _index, _cursor_supported, _uri, _results, _tot_num_res,
                  results_df, pc, get_all, api_response, next_url, inflight,
                  executor, outcome, nreq, calls, hasAll >>

\* Mutant: assigning the index rebuilds the request URI.
Mut_SetIndex_RebuildsUri(i) ==
  /\ pc = "idle"
  /\ _index' = i
  /\ _uri' = _base_url \o <<i, "?query=">> \o url_encode(_query)
  /\ UNCHANGED << _query, _cursor_supported, _results, _tot_num_res,
                  results_df, pc, get_all, api_response, next_url, inflight,
                  executor, outcome, nreq, calls, hasAll >>

\* lines 54-57: session.index = i, between two executions
SetIndex(i) ==
  /\ pc = "idle"
  /\ _index' = i
  /\ UNCHANGED << _query, _cursor_supported, _uri, _results, _tot_num_res,
                  results_df, pc, get_all, api_response, next_url, inflight,
                  executor, outcome, nreq, calls, hasAll >>

ExecuteStep ==
  \/ FirstRequestFails
  \/ FirstResponseMalformed
  \/ FirstResponseStored
  \/ Return
  \/ NoNextUrl
  \/ RequestNext
  \/ NextRequestFails
  \/ NextResponseMalformed
  \/ NextResponseAppended

\* The session is executed and asked whether it has all results.
NextExecute ==
  \/ \E ga \in BOOLEAN, a \in CallArgs, m \in {"any", "honest"} :
       Execute(ga, a[1], a[2], a[3], m)
  \/ ExecuteStep
  \/ hasAllResults

\* ... and its query and index are reassigned.
Next ==
  \/ NextExecute
  \/ \E q \in AssignedQueries : SetQuery(q)
  \/ \E i \in Indexes : SetIndex(i)

Spec == Init /\ [][Next]_vars

\* The first request alone, for every combination of execute's arguments.
UrlNext ==
  \/ \E ga \in BOOLEAN, use_cursor \in BOOLEAN, view \in Views,
        count \in Counts, m \in {"any", "honest"} :
       Execute(ga, use_cursor, view, count, m)
  \/ \E q \in AssignedQueries : SetQuery(q)
  \/ \E i \in Indexes : SetIndex(i)

UrlSpec == Init /\ [][UrlNext]_vars

\* execute runs on: a call that can take a step takes one.  No step of
\* execute reads _query or _index, so the runs of execute are those of a
\* session whose attributes are left alone.
FairSpec == Init /\ [][NextExecute]_vars /\ WF_vars(ExecuteStep)

\* ================================================================ claims
Idle == pc = "idle"
Returned == pc = "idle" /\ outcome = "returned"
HasNext(links) == \E i \in 1..Len(links) : links[i].ref = "next"

\* C1: for an index that is not cursor-capable, after execute(getAll=true)
\* has returned the session holds at most 5000 results, whatever total and
\* pages the executor answered with.
C1_CeilingHolds ==
  (Returned /\ get_all /\ ~ _cursor_supported) => num_res <= 5000

\* C2: whenever the total is known (and there is a result list to measure),
\* the number of results held is at most the total.
C2_ResultsAtMostTotal ==
  (_tot_num_res # None /\ _results # None) => num_res <= tot_num_res

\* C3: after a completed execute, hasAllResults() answers true if and only
\* if the number of results equals the total, also for large numbers.
C3_HasAllIffEqual ==
  (Returned /\ hasAll # "none") =>
    /\ hasAll \in {"True", "False"}
    /\ (hasAll = "True") <=> (num_res = tot_num_res)

\* C4: when the loop is to go on and the latest response has no "next" link,
\* execute fails there: no request is issued and the results stay as fetched.
C4_MissingNextFails ==
  [][ ( /\ pc = "loop"
        /\ Continue
        /\ (api_response.link = None \/ ~ HasNext(api_response.link[1])) )
      => ( /\ pc' = "idle"
           /\ outcome' \notin {"running", "returned"}
           /\ nreq' = nreq
           /\ inflight' = <<>>
           /\ _results' = _results ) ]_vars

\* C5: on a session on which execute was never called, hasAllResults()
\* returns false.
C5_FalseBeforeExecute ==
  (calls = 0 /\ hasAll # "none") => hasAll = "False"

C8_SinglePage ==
  (Returned /\ ~ get_all) =>
    /\ nreq = 1
    /\ api_response.entry # None
    /\ _results = Some(Entries(api_response.entry[1], calls, 1))

W8_SinglePageOfMany ==
  /\ Returned /\ ~ get_all
  /\ num_res = 2501 /\ tot_num_res = 6000
  /\ HasNext(api_response.link[1])

\* C9: a request that fails ends execute with that failure; nothing more is
\* requested and the session keeps results, total and table as they were.
C9_FailureKeepsResults ==
  [][ (outcome = "running" /\ outcome' = "TransportError")
      => ( /\ pc' = "idle"
           /\ inflight # <<>> /\ inflight' = <<>>
           /\ nreq' = nreq
           /\ _results' = _results
           /\ _tot_num_res' = _tot_num_res
           /\ results_df' = results_df ) ]_vars

W9_FailedAfterTwoPages ==
  /\ Idle /\ outcome = "TransportError"
  /\ nreq = 3
  /\ _results # None /\ Len(_results[1]) = 2
  /\ \A i \in 1..2 : _results[1][i].call = calls

\* C10: after a second execute has returned the results are those of the
\* second call alone.
C10_ReexecuteReplaces ==
  Returned => \A i \in 1..Len(_results[1]) : _results[1][i].call = calls

W10_SecondCallReturned ==
  /\ Returned /\ calls = 2
  /\ Len(_results[1]) >= 2
  /\ results_df = recast_df(_results[1])

\* ------------------------------------------------- construction, failures
\* C11: no session exists that was constructed with an empty index: no
\* request URI is ever built from one.
C11_EmptyIndexRejected ==
  _uri[Len(_base_url) + 1] # ""

\* C12: a response that lacks the total or the entries ends execute and
\* leaves results, total and table as they were before that response; in
\* particular a first response without entries does not change the total.
C12_MalformedKeepsState ==
  [][ (pc \in {"first", "next"} /\ outcome = "running"
       /\ outcome' = "KeyError")
      => ( /\ _results' = _results
           /\ _tot_num_res' = _tot_num_res
           /\ results_df' = results_df ) ]_vars

\* ------------------------------------------------------------ the table
\* The step on which execute returns.
Returns == pc = "loop" /\ pc' = "idle" /\ outcome' = "returned"

\* C13: before any execute the table is empty; the step on which execute
\* returns makes it the table of the results held at that moment and no
\* other step (a failing one included) changes it, so between calls it is
\* the table of the results of the last call that returned.
C13_TableOfLastReturn ==
  /\ [](calls = 0 => results_df = recast_df(<<>>))
  /\ [](Returned => results_df = recast_df(_results[1]))
  /\ [][ IF Returns THEN results_df' = recast_df(_results'[1])
                    ELSE results_df' = results_df ]_vars

\* A second call failed after its first page replaced the results: the
\* table is still that of the first call.
W13_TableSurvivesFailure ==
  /\ Idle /\ calls = 2
  /\ outcome \in {"TransportError", "KeyError", "UnboundLocalError"}
  /\ results_df.rows # <<>>
  /\ \A i \in 1..Len(results_df.rows) : results_df.rows[i].call = 1
  /\ _results # None /\ _results[1] # <<>>
  /\ \A i \in 1..Len(_results[1]) : _results[1][i].call = 2

\* ------------------------------------------------------ the request URI
\* s is what t begins with (a string or list extended in place by +=).
IsPrefix(s, t) == Len(s) <= Len(t) /\ SubSeq(t, 1, Len(s)) = s

\* The index the request URI was built from.
UriIndex == _uri[Len(_base_url) + 1]

\* C14: the request URI never changes after construction; a step that
\* assigns the query or the index leaves URI, results, total and table as
\* they were, and every execute asks for a URL that begins with that URI.
C14_UriFixedAtConstruction ==
  /\ [][ _uri' = _uri ]_vars
  /\ [][ (_query' # _query \/ _index' # _index)
         => UNCHANGED << _uri, _results, _tot_num_res, results_df >> ]_vars
  /\ [][ (pc = "idle" /\ pc' = "first") => IsPrefix(_uri, inflight') ]_vars

\* After a first execution both attributes were reassigned and a second
\* execute asks for the URI of the constructed index and query.
W14_ExecuteAfterReassign ==
  /\ pc = "first" /\ calls = 2
  /\ _results # None
  /\ _index = "scopus" /\ UriIndex = "sciencedirect"
  /\ _query = <<"b">>
  /\ IsPrefix(_base_url \o <<"sciencedirect", "?query=", "a", "+", "%26">>,
              inflight)

\* The parts of the first URL as the claim names them.
CursorPart(use_cursor) == IF use_cursor THEN <<"&cursor=*">> ELSE <<>>
ViewPart(view) == <<"&view=", view>>
CountPart(count) == <<"&count=", Str(count)>>

\* C15 as stated: the first request goes to the request URI, then the cursor
\* flag iff use_cursor, then the view iff one is given, then the count for
\* every count, 0 included.
C15_CountAlwaysAppended ==
  [][ \A ga \in BOOLEAN, use_cursor \in BOOLEAN, view \in Views,
         count \in Counts, m \in {"any", "honest"} :
        Execute(ga, use_cursor, view, count, m)
        => inflight' = _uri \o CursorPart(use_cursor)
                            \o (IF view # "None" THEN ViewPart(view) ELSE <<>>)
                            \o CountPart(count) ]_vars

\* C15 amended: ... then the view iff a non-empty view is given, then the
\* count iff the count is not 0, in that order; the URL is a function of the
\* request URI and the three arguments.
C15_FirstUrlComposition ==
  [][ \A ga \in BOOLEAN, use_cursor \in BOOLEAN, view \in Views,
         count \in Counts, m \in {"any", "honest"} :
        Execute(ga, use_cursor, view, count, m)
        => inflight' = _uri \o CursorPart(use_cursor)
                            \o (IF view \in {"None", ""} THEN <<>>
                                ELSE ViewPart(view))
                            \o (IF count = 0 THEN <<>>
                                ELSE CountPart(count)) ]_vars

\* A first request with all three parts.
W15_AllThreeParts ==
  /\ pc = "first"
  /\ inflight = _uri \o <<"&cursor=*", "&view=", "COMPLETE", "&count=", "25">>

\* ------------------------------------------------------------ the loop
\* The step on which execute issues a follow-up request.
FollowUp == pc = "loop" /\ pc' = "next"

\* C16: every follow-up request goes to the href of a "next" link of the
\* response received just before it, so never to a URL that only an older
\* response carried.
C16_FollowUpFromLatestResponse ==
  [][ FollowUp
      => /\ api_response.link # None
         /\ \E i \in 1..Len(api_response.link[1]) :
              /\ api_response.link[1][i].ref = "next"
              /\ api_response.link[1][i].href = inflight' ]_vars

\* C17: a follow-up request is issued only from a state of a get_all call
\* with fewer results than the total and, on a session that is not cursor
\* capable, fewer than 5000 results; from any other state of the loop the
\* call returns without a request.
C17_FollowUpOnlyWhileShort ==
  [][ /\ FollowUp
        => /\ get_all = TRUE
           /\ num_res < tot_num_res
           /\ (_cursor_supported \/ num_res < 5000)
      /\ (pc = "loop" /\ pc' # "loop"
          /\ (num_res >= tot_num_res
              \/ (~ _cursor_supported /\ num_res >= 5000)))
        => (Returns /\ nreq' = nreq /\ inflight' = <<>>) ]_vars

\* A get_all call issued one follow-up request and stopped without another
\* when the results reached the total.
W17_StoppedAtTotal ==
  /\ Returned /\ get_all = TRUE
  /\ nreq = 2 /\ Len(_results[1]) = 2
  /\ num_res = 5002 /\ tot_num_res = 5002
  /\ api_response.link # None /\ HasNext(api_response.link[1])

\* C18: once the first page of a call is stored, every step of that call
\* leaves the earlier results as a prefix of the later ones, and when the
\* call returns the results are the pages of that call, in the order in
\* which they were fetched.
C18_ResultsGrowByAppending ==
  /\ [][ (pc = "loop" \/ pc = "next")
         => IsPrefix(_results[1], _results'[1]) ]_vars
  /\ [](Returned
        => \A i \in 1..Len(_results[1]) :
             /\ _results[1][i].call = calls
             /\ _results[1][i].page = i)

\* A call returned three pages, fetched one after the other.
W18_ThreePagesInOrder ==
  /\ Returned /\ get_all = TRUE /\ nreq = 3
  /\ Len(_results[1]) = 3
  /\ \A i \in 1..3 : _results[1][i].page = i /\ _results[1][i].n > 0

\* ------------------------------------------------ the cursor flag, the end
\* C19: in every state the session's cursor flag is true exactly when its
\* current index is one of the cursored indexes.
C19_CursorFlagFollowsIndex ==
  _cursor_supported = (_index \in _cursored_indexes)

\* C20: every get_all call, once its first request is out, comes to an end
\* (returns or fails), whatever the executor answers.
C20_GetAllTerminates ==
  (pc = "first" /\ get_all = TRUE) ~> Idle

====
